---- MODULE Spec2Model ----
(***************************************************************************)
(* Model of mumasp: the Telescope protocol client (telescope.py) and the   *)
(* measurement functions measure / scan (measurement.py).                  *)
(*                                                                         *)
(* Angles are modelled as integer degrees: the code's test "abs(a - b) <   *)
(* 1e-10" is then equality.  A device response is the stripped text that   *)
(* send_cmd returns; "" is what send_cmd returns when the command timed    *)
(* out without any data.                                                   *)
(***************************************************************************)
EXTENDS Integers, Sequences, FiniteSets, TLC

(***************************************************************************)
(* Bounds of the model.                                                    *)
(***************************************************************************)
MaxCalls == 4
MaxT == 3           \* largest max_t_s a caller passes
MaxInterval == 2    \* largest read_interval_s
MaxTrig == 3        \* largest max_trig
MaxThreshold == 2   \* largest read_threshold
MaxArrive == 2      \* most triggers the detector records during one sleep
MaxStale == 1       \* most triggers in the device buffer before a measurement
MaxPositions == 2   \* longest positions list passed to scan
MaxRuns == 2        \* scan invocations over the one save_dir
MaxChunks == 3      \* most chunks recv returns during one send_cmd

(***************************************************************************)
(* Program constants.                                                      *)
(***************************************************************************)
steps_per_rev_phi == 12800
steps_per_rev_theta == 12800
ThetaPeriod == 180
PhiPeriod == 360
FullTurn == 360
HomeTheta == 90
HomePhi == 0
ServiceTheta == 60
ServicePhi == 40
SettleSeconds == 1

\* Python's None in _current_pos = (None, None): a value no angle takes.
None == -1000

\* A text is a sequence of characters.  The stripped response texts "0"
\* (success), "-3" (end switch not found), "7" (an unexpected code) and ""
\* (what send_cmd returns for a command that timed out without data).
R_ok == <<"0">>
R_endswitch == <<"-", "3">>
R_other == <<"7">>
R_empty == <<>>

Responses == {R_ok, R_endswitch, R_other, R_empty}

\* Raw arguments a caller passes to move_to.
Thetas == {0, 20, 200, -10}
Phis == {0, 40, 400, -50}

VARIABLES
    calibrated,     \* Telescope._calibrated
    current_pos,    \* Telescope._current_pos
    ncalls,         \* number of API calls made on the telescope so far
    op,             \* the last API call: [name, theta, phi]
    exc,            \* exception the last call raised, "none" if it returned
    cmds,           \* commands the last call handed to send_cmd, in order
    resps,          \* responses send_cmd returned to the last call, in order
    ever_calibrated, \* whether a calibrate has run to its last line so far
    pre,            \* calibrated, current_pos, op and exc before the last call
    now,            \* time.time(), in seconds
    dev_buffer,     \* the device's trigger buffer: timestamps, oldest first
    dev_clock,      \* the timestamp the device gives its next trigger
    m_pc,           \* where measure is: idle, clear, loop, drain, done, raised
    cfg,            \* measure's max_t_s, max_trig, read_interval_s, read_threshold
    t_start,        \* measure's t_start
    n_triggers,     \* measure's n_triggers
    triggers,       \* measure's triggers
    time_elapsed,   \* measure's time_elapsed, None until it returns
    m_exc,          \* exception measure raised, "none" otherwise
    m_log,          \* what measure has seen: polls made, whether every poll
                    \* reported depth 0, commands timed out, why the loop
                    \* ended, the commands sent and what each read returned
    s_pc,           \* where scan is: idle, iter, measuring, finally, returned
    s_args,         \* scan's positions, skip_existing and kwargs
    k,              \* scan's position in the list, from 1
    s_exc,          \* exception scan raised, "none" otherwise
    s_runs,         \* scan invocations so far
    fs_dir,         \* whether save_dir exists
    fs_log,         \* whether save_dir/mumasp.log exists
    fs_files,       \* the result files in save_dir: name -> text
    handlers,       \* the handlers on the shared logger
    s_log,          \* scan's last step and the file it was about, save_dir,
                    \* its files and the handlers at the start of this
                    \* invocation, the files for whose position it used the
                    \* device, the files it wrote and whether it wrote one twice
    send_pc,        \* where send_cmd is: idle, connect, recv, returned, raised
    response,       \* send_cmd's response, the text received so far
    send_ret,       \* the text send_cmd returned, None before it returns
    send_exc,       \* exception send_cmd raised, "none" otherwise
    send_log        \* the chunks recv has returned, whether the socket timed
                    \* out and whether the peer closed the connection

telescope_vars ==
    <<calibrated, current_pos, ncalls, op, exc, cmds, resps, pre, ever_calibrated>>

device_vars == <<dev_buffer, dev_clock>>

measure_vars == <<m_pc, cfg, t_start, n_triggers, triggers, time_elapsed, m_exc, m_log>>

scan_vars == <<s_pc, s_args, k, s_exc, s_runs, fs_dir, fs_log, fs_files, handlers, s_log>>

send_vars == <<send_pc, response, send_ret, send_exc, send_log>>

vars == <<telescope_vars, now, device_vars, measure_vars, scan_vars, send_vars>>

(***************************************************************************)
(* Telescope                                                               *)
(***************************************************************************)

\* The command texts f"c{ax}" and f"m{ax},{steps}".
CalCmd(ax) == [cmd |-> "c", ax |-> ax, steps |-> 0]
MoveCmd(ax, steps) == [cmd |-> "m", ax |-> ax, steps |-> steps]

IsMoveCmd(c) == c.cmd = "m"

\* int(round(steps_per_rev / 360.0 * angle)) for an integer angle >= 0.
\* The quotient has denominator 9 after reduction, so no tie occurs.
Steps(steps_per_rev, angle) ==
    LET num == steps_per_rev * angle
        q   == num \div FullTurn
        r   == num % FullTurn
    IN  IF 2 * r > FullTurn THEN q + 1 ELSE q

Abs(x) == IF x < 0 THEN -x ELSE x

\* The result of a method call on the telescope `self` = [calibrated, pos].
Outcome(e, cal, pos, sent, got) ==
    [exc |-> e, calibrated |-> cal, pos |-> pos, cmds |-> sent, resps |-> got]

\* calibrate with the axes calibrated in the opposite order.
calibrate_swapped(self, r0, r1) ==
    IF self.calibrated
    THEN Outcome("none", self.calibrated, self.pos, <<>>, <<>>)
    ELSE IF r0 = R_endswitch
    THEN Outcome("ValueError", self.calibrated, self.pos,
                 <<CalCmd(1)>>, <<r0>>)
    ELSE IF r1 = R_endswitch
    THEN Outcome("ValueError", self.calibrated, self.pos,
                 <<CalCmd(1), CalCmd(0)>>, <<r0, r1>>)
    ELSE Outcome("none", TRUE, <<HomeTheta, HomePhi>>,
                 <<CalCmd(1), CalCmd(0)>>, <<r0, r1>>)

\* calibrate without its test on _calibrated: the axes are driven again.
calibrate_again(self, r0, r1) ==
    IF r0 = R_endswitch
    THEN Outcome("ValueError", self.calibrated, self.pos,
                 <<CalCmd(0)>>, <<r0>>)
    ELSE IF r1 = R_endswitch
    THEN Outcome("ValueError", self.calibrated, self.pos,
                 <<CalCmd(0), CalCmd(1)>>, <<r0, r1>>)
    ELSE Outcome("none", TRUE, <<HomeTheta, HomePhi>>,
                 <<CalCmd(0), CalCmd(1)>>, <<r0, r1>>)

\* calibrate that looks at the responses after both axes were driven.
calibrate_lateRaise(self, r0, r1) ==
    IF self.calibrated
    THEN Outcome("none", self.calibrated, self.pos, <<>>, <<>>)
    ELSE IF r0 = R_endswitch \/ r1 = R_endswitch
    THEN Outcome("ValueError", self.calibrated, self.pos,
                 <<CalCmd(0), CalCmd(1)>>, <<r0, r1>>)
    ELSE Outcome("none", TRUE, <<HomeTheta, HomePhi>>,
                 <<CalCmd(0), CalCmd(1)>>, <<r0, r1>>)

\* Telescope.calibrate, the device answering r0 to "c0" and r1 to "c1".
\* An unexpected response builds a ValueError that is never raised.
calibrate(self, r0, r1) ==
    IF self.calibrated
    THEN Outcome("none", self.calibrated, self.pos, <<>>, <<>>)
    ELSE IF r0 = R_endswitch
    THEN Outcome("ValueError", self.calibrated, self.pos,
                 <<CalCmd(0)>>, <<r0>>)
    ELSE IF r1 = R_endswitch
    THEN Outcome("ValueError", self.calibrated, self.pos,
                 <<CalCmd(0), CalCmd(1)>>, <<r0, r1>>)
    ELSE Outcome("none", TRUE, <<HomeTheta, HomePhi>>,
                 <<CalCmd(0), CalCmd(1)>>, <<r0, r1>>)

\* The raw target stored without normalisation.
MovedPos_raw(self, theta, phi, sent, got) == <<theta, phi>>

\* The seconds calibrate has slept: time.sleep(1) after every axis whose
\* response did not raise.
CalibrateSlept(out) ==
    SettleSeconds * (IF out.exc = "none" THEN Len(out.cmds) ELSE Len(out.cmds) - 1)

\* The position advanced only when every move command answered "0".
MovedPos_onSuccess(self, theta, phi, sent, got) ==
    IF \A i \in 1..Len(got) : got[i] = R_ok
    THEN <<theta % ThetaPeriod, phi % PhiPeriod>>
    ELSE self.pos

\* The stored position after move_to has run to its last line.
MovedPos(self, theta, phi, sent, got) ==
    <<theta % ThetaPeriod, phi % PhiPeriod>>

\* The angles tested after normalisation to [0, 180) and [0, 360).
ValidAngles_normalized(theta, phi) ==
    theta % ThetaPeriod >= 0 /\ phi % PhiPeriod >= 0

\* move_to's test on its arguments: theta >= 0 and phi >= 0.
ValidAngles(theta, phi) == theta >= 0 /\ phi >= 0

\* move_to without the calibration precondition.
move_to_unguarded(self, theta, phi, r_phi, r_theta) ==
    IF ~(theta >= 0 /\ phi >= 0)
    THEN Outcome("ValueError", self.calibrated, self.pos, <<>>, <<>>)
    ELSE Outcome("none", self.calibrated,
                 <<theta % ThetaPeriod, phi % PhiPeriod>>,
                 <<MoveCmd(0, Steps(steps_per_rev_phi, phi % PhiPeriod)),
                   MoveCmd(1, Steps(steps_per_rev_theta, theta % ThetaPeriod))>>,
                 <<r_phi, r_theta>>)

\* Telescope.move_to, the device answering r_phi to "m0,.." and r_theta
\* to "m1,.." when these commands are sent.
move_to(self, theta, phi, r_phi, r_theta) ==
    IF ~self.calibrated
    THEN Outcome("Exception", self.calibrated, self.pos, <<>>, <<>>)
    ELSE IF ~ValidAngles(theta, phi)
    THEN Outcome("ValueError", self.calibrated, self.pos, <<>>, <<>>)
    ELSE
      LET phi_at   == Abs((phi % PhiPeriod) - self.pos[2]) = 0
          theta_at == Abs((theta % ThetaPeriod) - self.pos[1]) = 0
          sent_phi == IF phi_at THEN <<>>
                      ELSE <<MoveCmd(0, Steps(steps_per_rev_phi, phi % PhiPeriod))>>
          got_phi  == IF phi_at THEN <<>> ELSE <<r_phi>>
          sent_th  == IF theta_at THEN <<>>
                      ELSE <<MoveCmd(1, Steps(steps_per_rev_theta, theta % ThetaPeriod))>>
          got_th   == IF theta_at THEN <<>> ELSE <<r_theta>>
          sent     == sent_phi \o sent_th
          got      == got_phi \o got_th
      IN  Outcome("none", self.calibrated,
                  MovedPos(self, theta, phi, sent, got), sent, got)

\* reset_position that leaves the telescope calibrated.
reset_position_keeps(self, r_phi, r_theta) ==
    move_to(self, ServiceTheta, ServicePhi, r_phi, r_theta)

\* reset_position that also forgets the position.
reset_position_forgets(self, r_phi, r_theta) ==
    LET m == move_to(self, ServiceTheta, ServicePhi, r_phi, r_theta)
    IN  IF m.exc # "none" THEN m
        ELSE Outcome("none", FALSE, <<None, None>>, m.cmds, m.resps)

\* Telescope.reset_position: move_to(theta=60, phi=40), then uncalibrated.
reset_position(self, r_phi, r_theta) ==
    LET m == move_to(self, ServiceTheta, ServicePhi, r_phi, r_theta)
    IN  IF m.exc # "none" THEN m
        ELSE Outcome("none", FALSE, m.pos, m.cmds, m.resps)

(***************************************************************************)
(* Texts and their conversions                                             *)
(***************************************************************************)

Digits == <<"0", "1", "2", "3", "4", "5", "6", "7", "8", "9">>

\* str(n) for n >= 0: the decimal digits, most significant first.
RECURSIVE Str(_)
Str(n) ==
    IF n < 10 THEN <<Digits[n + 1]>>
    ELSE Str(n \div 10) \o <<Digits[(n % 10) + 1]>>

IsDecimal(text) ==
    /\ Len(text) > 0
    /\ \A i \in 1..Len(text) : \E d \in 1..10 : Digits[d] = text[i]

DigitValue(ch) == (CHOOSE d \in 1..10 : Digits[d] = ch) - 1

\* int(text) for a text of decimal digits.
RECURSIVE IntOf(_)
IntOf(text) ==
    IF Len(text) = 1 THEN DigitValue(text[1])
    ELSE 10 * IntOf(SubSeq(text, 1, Len(text) - 1)) + DigitValue(text[Len(text)])

\* int(text) as Python evaluates it on the texts the device sends here:
\* a ValueError for the empty text and for anything that is no number.
ParseInt(text) ==
    IF IsDecimal(text) THEN [exc |-> "none", value |-> IntOf(text)]
    ELSE [exc |-> "ValueError", value |-> 0]

\* Telescope.read_ntrig on the response to "n".
read_ntrig(reply_text) == ParseInt(reply_text)

RECURSIVE ParseLines(_)
ParseLines(lines) ==
    IF lines = <<>> THEN [exc |-> "none", value |-> <<>>]
    ELSE LET first == ParseInt(Head(lines))
             rest  == ParseLines(Tail(lines))
         IN  IF first.exc # "none" THEN [exc |-> first.exc, value |-> <<>>]
             ELSE IF rest.exc # "none" THEN rest
             ELSE [exc |-> "none", value |-> <<first.value>> \o rest.value]

\* Telescope.read_buffer on the lines of the response to "h" (the empty
\* response has no lines): the first line is dropped, blank lines are
\* dropped, every other line is converted by int().
read_buffer(reply_lines) ==
    LET body      == IF reply_lines = <<>> THEN <<>> ELSE Tail(reply_lines)
        sanitized == SelectSeq(body, LAMBDA ln : ln # <<>>)
    IN  ParseLines(sanitized)

(***************************************************************************)
(* The device as measure sees it                                           *)
(***************************************************************************)

\* How a command can go: answered; timed out after the device ran it; timed
\* out without the device ever running it.
Fates == {"answered", "late", "lost"}

\* The triggers the Arduino's memory holds.
Capacity == 1000

\* The device records `arrived` more triggers.
Arrive(buffer, clock, arrived) ==
    [buffer |-> buffer \o [i \in 1..arrived |-> clock + i - 1],
     clock |-> clock + arrived]

\* The response to "n": the buffer depth.
ReplyN(buffer, fate) == IF fate = "answered" THEN Str(Len(buffer)) ELSE R_empty

\* The lines of the response to "h": the count, then one timestamp a line.
ReplyH(buffer, fate) ==
    IF fate = "answered"
    THEN <<Str(Len(buffer))>> \o [i \in 1..Len(buffer) |-> Str(buffer[i])]
    ELSE <<>>

\* "x" and "h" empty the buffer when the device runs them.
Emptied(buffer, fate) == IF fate = "lost" THEN buffer ELSE <<>>

(***************************************************************************)
(* measure                                                                 *)
(***************************************************************************)

Config(max_t_s, max_trig, read_interval_s, read_threshold) ==
    [max_t_s |-> max_t_s, max_trig |-> max_trig,
     read_interval_s |-> read_interval_s, read_threshold |-> read_threshold]

\* What measure has seen so far: the polls made, whether every poll was
\* answered depth 0, whether every poll was answered a depth that reached
\* read_threshold, whether a command timed out, why the loop ended, the
\* timestamp of the first trigger after clear_buffer, the commands sent,
\* what each read_buffer returned, whether a command did not reach the
\* device, and for the last poll the triggers that arrived during its sleep
\* and the triggers the device held when it was asked.
NoLog ==
    [polls |-> 0, all_zero |-> TRUE, all_read |-> TRUE, timed_out |-> FALSE,
     exit |-> "none", first |-> 0, sent |-> <<>>, reads |-> <<>>,
     unheard |-> FALSE, arrived |-> 0, depth |-> 0]

MeasureIdle ==
    /\ m_pc = "idle"
    /\ cfg = Config(0, 0, 0, 0)
    /\ t_start = 0
    /\ n_triggers = 0
    /\ triggers = <<>>
    /\ time_elapsed = None
    /\ m_exc = "none"
    /\ m_log = NoLog

\* The threshold tested with > in place of >=.
Threshold_strict(c, n_in_buffer) == n_in_buffer > c.read_threshold

\* The threshold of a buffer read: n_in_buffer >= read_threshold.
Threshold(c, n_in_buffer) == n_in_buffer >= c.read_threshold

\* The trigger ceiling tested with > in place of >=.
Ceiling_strict(c, n_trig, n_in_buffer) == n_trig + n_in_buffer > c.max_trig

\* The trigger ceiling: n_triggers + n_in_buffer >= max_trig.
Ceiling(c, n_trig, n_in_buffer) == n_trig + n_in_buffer >= c.max_trig

\* One pass through the body of measure's while loop, after the sleep:
\* depth is the response to "n", drained the lines the device would answer
\* to "h".  The result is the new n_triggers and triggers, whether "h" was
\* sent, whether the loop breaks, and the exception raised, if any.
LoopBody(c, n_trig, trigs, depth_reply, drained_lines) ==
    LET depth == read_ntrig(depth_reply)
        reads == depth.exc = "none" /\ Threshold(c, depth.value)
        new   == read_buffer(drained_lines)
        n_in_buffer == IF reads THEN 0 ELSE depth.value
        n_new == IF reads THEN n_trig + Len(new.value) ELSE n_trig
    IN  IF depth.exc # "none"
        THEN [exc |-> depth.exc, n_triggers |-> n_trig, triggers |-> trigs,
              reads |-> FALSE, break |-> FALSE]
        ELSE IF reads /\ new.exc # "none"
        THEN [exc |-> new.exc, n_triggers |-> n_trig, triggers |-> trigs,
              reads |-> TRUE, break |-> FALSE]
        ELSE [exc |-> "none", n_triggers |-> n_new,
              triggers |-> IF reads THEN trigs \o new.value ELSE trigs,
              reads |-> reads, break |-> Ceiling(c, n_new, n_in_buffer)]

\* The while condition with <= in place of <.
LoopGoesOn_inclusive(c, t, start) == t - start <= c.max_t_s

\* The while condition: time.time() - t_start < max_t_s.
LoopGoesOn(c, t, start) == t - start < c.max_t_s

\* telescope.clear_buffer(), then t_start, n_triggers and triggers are set.
MeasureClear ==
    /\ m_pc = "clear"
    /\ \E fate \in Fates :
         /\ dev_buffer' = Emptied(dev_buffer, fate)
         /\ m_log' = [m_log EXCEPT !.timed_out = (fate # "answered"),
                                   !.unheard = (fate = "lost"),
                                   !.first = dev_clock,
                                   !.sent = <<"x">>]
    /\ t_start' = now
    /\ n_triggers' = 0
    /\ triggers' = <<>>
    /\ m_pc' = "loop"
    /\ UNCHANGED <<send_vars, telescope_vars, now, dev_clock, cfg, time_elapsed, m_exc>>

\* One iteration: sleep read_interval_s while triggers arrive, ask for the
\* depth, read the buffer when the threshold is reached, test the ceiling.
MeasurePoll ==
    /\ m_pc = "loop"
    /\ LoopGoesOn(cfg, now, t_start)
    /\ \E arrived \in 0..MaxArrive, fate_n \in Fates, fate_h \in Fates :
         LET dev   == Arrive(dev_buffer, dev_clock, arrived)
             reply == ReplyN(dev.buffer, fate_n)
             body  == LoopBody(cfg, n_triggers, triggers, reply,
                               ReplyH(dev.buffer, fate_h))
         IN  /\ (~body.reads) => fate_h = "answered"
             /\ now' = now + cfg.read_interval_s
             /\ dev_clock' = dev.clock
             /\ dev_buffer' = IF body.reads THEN Emptied(dev.buffer, fate_h)
                              ELSE dev.buffer
             /\ n_triggers' = body.n_triggers
             /\ triggers' = body.triggers
             /\ m_exc' = body.exc
             /\ m_pc' = IF body.exc # "none" THEN "raised"
                        ELSE IF body.break THEN "drain" ELSE "loop"
             /\ m_log' = [polls |-> m_log.polls + 1,
                          all_zero |-> m_log.all_zero /\ reply = <<"0">>,
                          all_read |-> m_log.all_read /\ body.reads,
                          timed_out |-> \/ m_log.timed_out
                                        \/ fate_n # "answered"
                                        \/ fate_h # "answered",
                          exit |-> IF body.exc # "none" THEN "raise"
                                   ELSE IF body.break THEN "max_trig"
                                   ELSE "none",
                          first |-> m_log.first,
                          sent |-> m_log.sent \o
                                   (IF body.reads THEN <<"n", "h">> ELSE <<"n">>),
                          reads |-> IF body.reads /\ body.exc = "none"
                                    THEN Append(m_log.reads,
                                                read_buffer(ReplyH(dev.buffer, fate_h)).value)
                                    ELSE m_log.reads,
                          unheard |-> \/ m_log.unheard
                                      \/ fate_n = "lost"
                                      \/ fate_h = "lost",
                          arrived |-> arrived,
                          depth |-> Len(dev.buffer)]
    /\ UNCHANGED <<send_vars, telescope_vars, cfg, t_start, time_elapsed>>

\* The while condition fails: the time ceiling is reached.
MeasureTimeUp ==
    /\ m_pc = "loop"
    /\ ~LoopGoesOn(cfg, now, t_start)
    /\ m_pc' = "drain"
    /\ m_log' = [m_log EXCEPT !.exit = "max_t_s"]
    /\ UNCHANGED <<send_vars, telescope_vars, now, device_vars, cfg, t_start, n_triggers,
                   triggers, time_elapsed, m_exc>>

\* measure returning what the loop has read, without the last read.
MeasureDrain_noRead ==
    /\ m_pc = "drain"
    /\ m_exc' = "none"
    /\ m_pc' = "done"
    /\ time_elapsed' = now - t_start
    /\ UNCHANGED <<send_vars, telescope_vars, now, device_vars, cfg, t_start,
                   n_triggers, triggers, m_log>>

\* t_end is taken, the buffer is read a last time, measure returns.
MeasureDrain ==
    /\ m_pc = "drain"
    /\ \E fate \in Fates :
         LET last == read_buffer(ReplyH(dev_buffer, fate))
         IN  /\ dev_buffer' = Emptied(dev_buffer, fate)
             /\ m_exc' = last.exc
             /\ triggers' = triggers \o last.value
             /\ m_pc' = IF last.exc # "none" THEN "raised" ELSE "done"
             /\ time_elapsed' = IF last.exc # "none" THEN None ELSE now - t_start
             /\ m_log' = [m_log EXCEPT !.timed_out = @ \/ fate # "answered",
                                       !.unheard = @ \/ fate = "lost",
                                       !.sent = Append(@, "h"),
                                       !.reads = IF last.exc # "none" THEN @
                                                 ELSE Append(@, last.value)]
    /\ UNCHANGED <<send_vars, telescope_vars, now, dev_clock, cfg, t_start, n_triggers>>

\* The next step of a running measure.
MeasureBody == MeasureClear \/ MeasurePoll \/ MeasureTimeUp \/ MeasureDrain

\* A step of a measure called on its own.
MeasureStep ==
    \/ MeasureClear /\ UNCHANGED scan_vars
    \/ MeasurePoll /\ UNCHANGED scan_vars
    \/ MeasureTimeUp /\ UNCHANGED scan_vars
    \/ MeasureDrain /\ UNCHANGED scan_vars

(***************************************************************************)
(* Calls on the telescope                                                  *)
(***************************************************************************)

Self == [calibrated |-> calibrated, pos |-> current_pos]

Snapshot == [calibrated |-> calibrated, pos |-> current_pos, op |-> op, exc |-> exc]

Call(name, theta, phi) == [name |-> name, theta |-> theta, phi |-> phi]

\* A calibrate that ran to its last line: it drove the axes and did not raise.
Completes(call, out) ==
    call.name = "calibrate" /\ out.exc = "none" /\ out.cmds # <<>>

\* The effect of a finished call on the telescope and on the call record.
ApplyCall(call, out) ==
    /\ calibrated' = out.calibrated
    /\ current_pos' = out.pos
    /\ exc' = out.exc
    /\ cmds' = out.cmds
    /\ resps' = out.resps
    /\ op' = call
    /\ pre' = Snapshot
    /\ ncalls' = ncalls + 1
    /\ ever_calibrated' = (ever_calibrated \/ Completes(call, out))
    /\ UNCHANGED send_vars

\* A call made directly on the telescope that does not sleep.
Apply(call, out) ==
    /\ ApplyCall(call, out)
    /\ UNCHANGED <<now, device_vars, measure_vars, scan_vars>>

TelescopeInit ==
    /\ calibrated = FALSE
    /\ current_pos = <<None, None>>
    /\ ncalls = 0
    /\ op = Call("init", None, None)
    /\ exc = "none"
    /\ cmds = <<>>
    /\ resps = <<>>
    /\ pre = [calibrated |-> FALSE, pos |-> <<None, None>>,
              op |-> Call("init", None, None), exc |-> "none"]
    /\ ever_calibrated = FALSE

Calibrate ==
    /\ ncalls < MaxCalls
    /\ \E r0, r1 \in Responses :
         LET out == calibrate(Self, r0, r1)
         IN  /\ ApplyCall(Call("calibrate", None, None), out)
             /\ now' = now + CalibrateSlept(out)
    /\ UNCHANGED <<device_vars, measure_vars, scan_vars>>

MoveTo ==
    /\ ncalls < MaxCalls
    /\ \E theta \in Thetas, phi \in Phis, r_phi, r_theta \in Responses :
         Apply(Call("move_to", theta, phi), move_to(Self, theta, phi, r_phi, r_theta))

ResetPosition ==
    /\ ncalls < MaxCalls
    /\ \E r_phi, r_theta \in Responses :
         Apply(Call("reset_position", None, None), reset_position(Self, r_phi, r_theta))

(***************************************************************************)
(* scan                                                                    *)
(***************************************************************************)

\* f"{x:.2f}" for an integer x: sign, digits, ".00".
Fmt2(x) ==
    (IF x < 0 THEN <<"-">> ELSE <<>>) \o Str(Abs(x)) \o <<".", "0", "0">>

\* Path(f"meas_t{theta:.2f}_p{phi:.2f}.txt") under save_dir.
OutPath(theta, phi) == [t |-> Fmt2(theta), p |-> Fmt2(phi)]

\* json.dumps(info_dict): one piece of text without a line break.
InfoStr(theta, phi, trigs, start, elapsed) ==
    <<[theta_deg |-> theta, phi_deg |-> phi, n_triggers |-> Len(trigs),
       t_start_s |-> start, t_elapsed_s |-> elapsed, version |-> "__version__"]>>

StrItem(text) == [type |-> "str", value |-> text]
IntItem(n) == [type |-> "int", value |-> n]

\* f.write(piece) for a piece without a line break: it continues the last
\* line of the file, or starts the first.  A file is its sequence of lines.
Write(lines, piece) ==
    IF lines = <<>> THEN <<piece>>
    ELSE [lines EXCEPT ![Len(lines)] = @ \o piece]

\* f.writelines(items), from `lines` on: each item is written as it stands,
\* with no line break after it; an item that is no str raises a TypeError,
\* and what was written before it stays in the file.
RECURSIVE writelines(_, _)
writelines(lines, items) ==
    IF items = <<>> THEN [exc |-> "none", lines |-> lines]
    ELSE IF Head(items).type # "str" THEN [exc |-> "TypeError", lines |-> lines]
    ELSE writelines(Write(lines, Head(items).value), Tail(items))

\* The list [info_str] + triggers that scan hands to writelines.
FileItems(info_str, trigs) ==
    <<StrItem(info_str)>> \o [i \in 1..Len(trigs) |-> IntItem(trigs[i])]

\* The check on positions: every element a 2-tuple of numbers.
ValidPositions(positions) ==
    \A i \in 1..Len(positions) :
        /\ Len(positions[i]) = 2
        /\ \A j \in 1..Len(positions[i]) : positions[i][j] # None

\* The directory made before the positions are looked at.
PreFlight_mkdirFirst(positions, dir_exists) ==
    IF dir_exists THEN [exc |-> "FileExistsError", mkdir |-> FALSE]
    ELSE IF ~ValidPositions(positions) THEN [exc |-> "ValueError", mkdir |-> TRUE]
    ELSE [exc |-> "none", mkdir |-> TRUE]

\* scan before it attaches its log file: the check on positions raises
\* ValueError, then os.mkdir raises FileExistsError or makes save_dir.
PreFlight(positions, dir_exists) ==
    IF ~ValidPositions(positions) THEN [exc |-> "ValueError", mkdir |-> FALSE]
    ELSE IF dir_exists THEN [exc |-> "FileExistsError", mkdir |-> FALSE]
    ELSE [exc |-> "none", mkdir |-> TRUE]

Exists(path) == path \in DOMAIN fs_files

WithFile(files, path, text) ==
    [f \in DOMAIN files \cup {path} |-> IF f = path THEN text ELSE files[f]]

NoFiles == [f \in {} |-> <<>>]

\* The arguments of scan; thetas and phis are those of raster_scan when
\* scan is called by it.
NoArgs ==
    [positions |-> <<>>, skip_existing |-> TRUE, kwargs |-> Config(0, 0, 0, 0),
     thetas |-> <<>>, phis |-> <<>>]

ScanNotCalled ==
    /\ s_pc = "idle"
    /\ k = 0
    /\ s_exc = "none"
    /\ s_runs = 0
    /\ fs_log = FALSE
    /\ fs_files = NoFiles
    /\ handlers = {"console_handler"}
    /\ s_log = [step |-> "none", path |-> OutPath(0, 0), dir_before |-> FALSE,
                before |-> NoFiles, device |-> {},
                handlers_before |-> {"console_handler"},
                writes |-> {}, rewritten |-> FALSE]

ScanIdle == ScanNotCalled /\ fs_dir = FALSE /\ s_args = NoArgs

\* raster_scan's positions: [(theta, phi) for theta in thetas for phi in
\* phis], the phis run through for each theta in turn.
RasterPositions(thetas, phis) ==
    [i \in 1..(Len(thetas) * Len(phis)) |->
        <<thetas[((i - 1) \div Len(phis)) + 1], phis[((i - 1) % Len(phis)) + 1]>>]

\* scan up to the try: the check on positions, os.mkdir, the log handler.
ScanEnter(positions, skip_existing, kwargs) ==
    /\ s_pc \in {"idle", "returned"}
    /\ s_runs < MaxRuns
    /\ s_runs' = s_runs + 1
    /\ s_args' = [s_args EXCEPT !.positions = positions,
                                !.skip_existing = skip_existing,
                                !.kwargs = kwargs]
    /\ s_log' = [step |-> "enter", path |-> OutPath(0, 0), dir_before |-> fs_dir,
                 before |-> fs_files, device |-> {},
                 handlers_before |-> handlers,
                 writes |-> {}, rewritten |-> FALSE]
    /\ k' = 1
    /\ LET pre_flight == PreFlight(positions, fs_dir)
       IN  /\ s_exc' = pre_flight.exc
           /\ fs_dir' = (fs_dir \/ pre_flight.mkdir)
           /\ IF pre_flight.exc # "none"
              THEN /\ s_pc' = "returned"
                   /\ UNCHANGED <<fs_log, handlers>>
              ELSE /\ s_pc' = "iter"
                   /\ fs_log' = TRUE
                   /\ handlers' = handlers \cup {"logfile_handler"}
    /\ UNCHANGED <<send_vars, telescope_vars, now, device_vars, measure_vars, fs_files>>

CurTheta == s_args.positions[k][1]
CurPhi == s_args.positions[k][2]
CurPath == OutPath(CurTheta, CurPhi)

\* scan without its test on the file of the position.
Skips_never == FALSE

\* if skip_existing and out_path.exists()
Skips == s_args.skip_existing /\ Exists(CurPath)

\* The position's file exists and skip_existing is set: continue.
ScanSkip ==
    /\ s_pc = "iter"
    /\ k <= Len(s_args.positions)
    /\ Skips
    /\ k' = k + 1
    /\ s_log' = [s_log EXCEPT !.step = "skip", !.path = CurPath]
    /\ UNCHANGED <<send_vars, telescope_vars, now, device_vars, measure_vars, s_pc, s_args,
                   s_exc, s_runs, fs_dir, fs_log, fs_files, handlers>>

\* telescope.move_to(theta, phi), then measure is entered with kwargs.
ScanMove ==
    /\ s_pc = "iter"
    /\ k <= Len(s_args.positions)
    /\ ~Skips
    /\ \E r_phi, r_theta \in Responses :
         LET out == move_to(Self, CurTheta, CurPhi, r_phi, r_theta)
         IN  /\ ApplyCall(Call("move_to", CurTheta, CurPhi), out)
             /\ s_log' = [s_log EXCEPT !.step = "move", !.path = CurPath,
                            !.device = IF out.cmds = <<>> THEN @
                                       ELSE @ \cup {CurPath}]
             /\ IF out.exc # "none"
                THEN /\ s_exc' = out.exc
                     /\ s_pc' = "finally"
                     /\ UNCHANGED <<m_pc, cfg>>
                ELSE /\ s_exc' = "none"
                     /\ s_pc' = "measuring"
                     /\ m_pc' = "clear"
                     /\ cfg' = s_args.kwargs
    /\ time_elapsed' = None
    /\ m_exc' = "none"
    /\ m_log' = NoLog
    /\ UNCHANGED <<now, device_vars, t_start, n_triggers, triggers, s_args, k,
                   s_runs, fs_dir, fs_log, fs_files, handlers>>

\* A step of the measure that scan has called.
ScanMeasure ==
    /\ s_pc = "measuring"
    /\ MeasureBody
    /\ s_log' = [s_log EXCEPT !.step = "measure", !.device = @ \cup {CurPath}]
    /\ UNCHANGED <<s_pc, s_args, k, s_exc, s_runs, fs_dir, fs_log, fs_files, handlers>>

\* measure raised: the exception leaves the loop.
ScanMeasureRaised ==
    /\ s_pc = "measuring"
    /\ m_pc = "raised"
    /\ s_exc' = m_exc
    /\ s_pc' = "finally"
    /\ m_pc' = "idle"
    /\ s_log' = [s_log EXCEPT !.step = "raise"]
    /\ UNCHANGED <<send_vars, telescope_vars, now, device_vars, cfg, t_start, n_triggers,
                   triggers, time_elapsed, m_exc, m_log, s_args, k, s_runs,
                   fs_dir, fs_log, fs_files, handlers>>

\* measure returned: info_dict is built and the file is written.
ScanWrite ==
    /\ s_pc = "measuring"
    /\ m_pc = "done"
    /\ LET info_str == InfoStr(CurTheta, CurPhi, triggers, t_start, time_elapsed)
           written  == writelines(<<>>, FileItems(info_str, triggers))
       IN  /\ fs_files' = WithFile(fs_files, CurPath, written.lines)
           /\ s_exc' = written.exc
           /\ s_pc' = IF written.exc # "none" THEN "finally" ELSE "iter"
           /\ k' = IF written.exc # "none" THEN k ELSE k + 1
    /\ m_pc' = "idle"
    /\ s_log' = [s_log EXCEPT !.step = "write", !.path = CurPath,
                               !.writes = @ \cup {CurPath},
                               !.rewritten = @ \/ CurPath \in s_log.writes]
    /\ UNCHANGED <<send_vars, telescope_vars, now, device_vars, cfg, t_start, n_triggers,
                   triggers, time_elapsed, m_exc, m_log, s_args, s_runs,
                   fs_dir, fs_log, handlers>>

\* The handler removed after the loop instead of in a finally clause: an
\* exception leaves it attached.
ScanFinally_afterLoop ==
    /\ \/ s_pc = "finally"
       \/ s_pc = "iter" /\ k > Len(s_args.positions)
    /\ handlers' = IF s_pc = "finally" THEN handlers
                   ELSE handlers \ {"logfile_handler"}
    /\ s_pc' = "returned"
    /\ s_log' = [s_log EXCEPT !.step = "finally"]
    /\ UNCHANGED <<send_vars, telescope_vars, now, device_vars, measure_vars, s_args, k,
                   s_exc, s_runs, fs_dir, fs_log, fs_files>>

\* The finally clause, reached from the end of the list or by an exception.
ScanFinally ==
    /\ \/ s_pc = "finally"
       \/ s_pc = "iter" /\ k > Len(s_args.positions)
    /\ handlers' = handlers \ {"logfile_handler"}
    /\ s_pc' = "returned"
    /\ s_log' = [s_log EXCEPT !.step = "finally"]
    /\ UNCHANGED <<send_vars, telescope_vars, now, device_vars, measure_vars, s_args, k,
                   s_exc, s_runs, fs_dir, fs_log, fs_files>>

(***************************************************************************)
(* send_cmd                                                                *)
(***************************************************************************)

\* The byte that is no UTF-8, and the character decode puts in its place.
BadByte == "\\xff"
Replacement == "\\ufffd"

\* The characters str.strip() removes at both ends.
Whitespace == {" ", "\t", "\n", "\r"}

\* data.decode("utf-8", errors="replace")
Decode(data) ==
    [i \in 1..Len(data) |-> IF data[i] = BadByte THEN Replacement ELSE data[i]]

RECURSIVE LStrip(_)
LStrip(text) ==
    IF text # <<>> /\ Head(text) \in Whitespace THEN LStrip(Tail(text)) ELSE text

RECURSIVE RStrip(_)
RStrip(text) ==
    IF text # <<>> /\ text[Len(text)] \in Whitespace
    THEN RStrip(SubSeq(text, 1, Len(text) - 1))
    ELSE text

\* response.strip()
Strip(text) == RStrip(LStrip(text))

\* The chunks recv may return: answers of the device, whole or in parts.
Chunks ==
    {<<"0">>, <<"-", "3">>, <<"2">>, <<"3", "\r", "\n">>, <<"\r", "\n">>, <<BadByte>>}

NoSendLog == [received |-> <<>>, timed_out |-> FALSE, closed |-> FALSE]

SendIdle ==
    /\ send_pc = "idle"
    /\ response = <<>>
    /\ send_ret = None
    /\ send_exc = "none"
    /\ send_log = NoSendLog

\* What send_cmd returns when the peer has closed, or after the except
\* clause has logged the timeout: response.strip().
SendReturned(text) == Strip(text)

\* s.connect and s.sendall: the device accepts the connection, or the
\* connection times out, or it is refused (an OSError that is not caught).
SendConnect ==
    /\ send_pc = "connect"
    /\ \E outcome \in {"connected", "timeout", "refused"} :
         /\ send_pc' = CASE outcome = "connected" -> "recv"
                          [] outcome = "timeout" -> "returned"
                          [] outcome = "refused" -> "raised"
         /\ send_ret' = IF outcome = "timeout" THEN SendReturned(response) ELSE None
         /\ send_exc' = IF outcome = "refused" THEN "ConnectionRefusedError"
                        ELSE "none"
         /\ send_log' = [send_log EXCEPT !.timed_out = (outcome = "timeout")]
    /\ UNCHANGED <<response, telescope_vars, now, device_vars, measure_vars,
                   scan_vars>>

\* s.recv returns data: it is decoded and appended to response.
SendRecv ==
    /\ send_pc = "recv"
    /\ Len(send_log.received) < MaxChunks
    /\ \E data \in Chunks :
         /\ response' = response \o Decode(data)
         /\ send_log' = [send_log EXCEPT !.received = Append(@, data)]
    /\ UNCHANGED <<send_pc, send_ret, send_exc, telescope_vars, now,
                   device_vars, measure_vars, scan_vars>>

\* s.recv returns b"": the peer has closed, the loop is left.
SendClosed ==
    /\ send_pc = "recv"
    /\ send_pc' = "returned"
    /\ send_ret' = SendReturned(response)
    /\ send_log' = [send_log EXCEPT !.closed = TRUE]
    /\ UNCHANGED <<response, send_exc, telescope_vars, now, device_vars,
                   measure_vars, scan_vars>>

\* s.recv raises socket.timeout: the except clause logs an error.
SendTimeout ==
    /\ send_pc = "recv"
    /\ send_pc' = "returned"
    /\ send_ret' = SendReturned(response)
    /\ send_log' = [send_log EXCEPT !.timed_out = TRUE]
    /\ UNCHANGED <<response, send_exc, telescope_vars, now, device_vars,
                   measure_vars, scan_vars>>

(***************************************************************************)
(* Specifications                                                          *)
(***************************************************************************)

Init ==
    /\ TelescopeInit
    /\ now = 0
    /\ dev_buffer = <<>>
    /\ dev_clock = 1
    /\ MeasureIdle
    /\ ScanIdle
    /\ SendIdle

Next == Calibrate \/ MoveTo \/ ResetPosition

Spec == Init /\ [][Next]_vars

\* The configurations a caller passes to measure.
Configs ==
    {Config(t, n, i, th) : t \in 0..MaxT, n \in 1..MaxTrig,
                           i \in 1..MaxInterval, th \in 1..MaxThreshold}

\* measure is called on a telescope whose buffer may hold old triggers.
MeasureInit ==
    /\ TelescopeInit
    /\ now = 0
    /\ \E stale \in 0..MaxStale :
         /\ dev_buffer = [i \in 1..stale |-> i]
         /\ dev_clock = stale + 1
    /\ m_pc = "clear"
    /\ cfg \in Configs
    /\ t_start = 0
    /\ n_triggers = 0
    /\ triggers = <<>>
    /\ time_elapsed = None
    /\ m_exc = "none"
    /\ m_log = NoLog
    /\ ScanIdle
    /\ SendIdle

SpecMeasure == MeasureInit /\ [][MeasureStep]_vars

\* The positions callers pass: the two of the tests, a 1-tuple, and a pair
\* whose first element is no number.
ScanPositions == {<<0, 10>>, <<45, 20>>, <<0>>, <<None, 0>>}

RECURSIVE ListsUpTo(_, _)
ListsUpTo(S, n) ==
    IF n = 0 THEN {<<>>}
    ELSE LET shorter == ListsUpTo(S, n - 1)
         IN  shorter \cup {Append(l, x) : l \in {m \in shorter : Len(m) = n - 1}, x \in S}

PositionLists == ListsUpTo(ScanPositions, MaxPositions)

\* The measurement configuration scan forwards in kwargs: one poll.
ScanConfigs == {Config(1, 1, 1, 1)}

\* The telescope after its first calibrate, answered "0" twice.
CalibratedAtHome ==
    /\ calibrated = TRUE
    /\ current_pos = <<HomeTheta, HomePhi>>
    /\ ncalls = 1
    /\ op = Call("calibrate", None, None)
    /\ exc = "none"
    /\ cmds = <<CalCmd(0), CalCmd(1)>>
    /\ resps = <<R_ok, R_ok>>
    /\ pre = [calibrated |-> FALSE, pos |-> <<None, None>>,
              op |-> Call("init", None, None), exc |-> "none"]
    /\ ever_calibrated = TRUE

\* A caller sweeps its positions, and may run the same sweep again over
\* the same save_dir, with skip_existing set or not.
ScanCall ==
    \E skip_existing \in BOOLEAN :
        ScanEnter(s_args.positions, skip_existing, s_args.kwargs)

\* scan is called on a telescope that was calibrated, or was not, with a
\* save_dir that does not exist, or does.
ScanInit ==
    /\ \/ TelescopeInit
       \/ CalibratedAtHome
    /\ now = 0
    /\ dev_buffer = <<>>
    /\ dev_clock = 1
    /\ MeasureIdle
    /\ ScanNotCalled
    /\ SendIdle
    /\ fs_dir \in BOOLEAN
    /\ \E positions \in PositionLists, kwargs \in ScanConfigs :
         s_args = [NoArgs EXCEPT !.positions = positions, !.kwargs = kwargs]

ScanNext ==
    \/ ScanCall
    \/ ScanSkip
    \/ ScanMove
    \/ ScanMeasure
    \/ ScanMeasureRaised
    \/ ScanWrite
    \/ ScanFinally

SpecScan == ScanInit /\ [][ScanNext]_vars

\* The angle lists callers pass to raster_scan: two by two angles, a list
\* that names an angle twice, a single angle.
RasterThetas == {<<0, 90>>, <<0, 0>>, <<45>>}
RasterPhis == {<<0, 180>>, <<20>>}

\* raster_scan: scan over the pairs of thetas and phis, with its kwargs.
RasterScanCall ==
    \E skip_existing \in BOOLEAN :
        ScanEnter(RasterPositions(s_args.thetas, s_args.phis), skip_existing,
                  s_args.kwargs)

\* raster_scan is called on a telescope that was calibrated, or was not,
\* with a save_dir that does not exist, or does.
RasterInit ==
    /\ \/ TelescopeInit
       \/ CalibratedAtHome
    /\ now = 0
    /\ dev_buffer = <<>>
    /\ dev_clock = 1
    /\ MeasureIdle
    /\ ScanNotCalled
    /\ SendIdle
    /\ fs_dir \in BOOLEAN
    /\ \E thetas \in RasterThetas, phis \in RasterPhis, kwargs \in ScanConfigs :
         s_args = [NoArgs EXCEPT !.thetas = thetas, !.phis = phis,
                                 !.kwargs = kwargs]

RasterNext ==
    \/ RasterScanCall
    \/ ScanSkip
    \/ ScanMove
    \/ ScanMeasure
    \/ ScanMeasureRaised
    \/ ScanWrite
    \/ ScanFinally

SpecRaster == RasterInit /\ [][RasterNext]_vars

\* send_cmd is called once, with any command.
SendInit ==
    /\ TelescopeInit
    /\ now = 0
    /\ dev_buffer = <<>>
    /\ dev_clock = 1
    /\ MeasureIdle
    /\ ScanIdle
    /\ send_pc = "connect"
    /\ response = <<>>
    /\ send_ret = None
    /\ send_exc = "none"
    /\ send_log = NoSendLog

SendNext == SendConnect \/ SendRecv \/ SendClosed \/ SendTimeout

SpecSend == SendInit /\ [][SendNext]_vars

(***************************************************************************)
(* Properties of the Telescope state machine                               *)
(***************************************************************************)

NoMoveCmd(sent) == \A i \in 1..Len(sent) : ~IsMoveCmd(sent[i])

NoCmdFor(sent, ax) == \A i \in 1..Len(sent) : sent[i].ax # ax

Norm(call) == <<call.theta % ThetaPeriod, call.phi % PhiPeriod>>

\* C1: move_to on an uncalibrated telescope raises, sends no command and
\* leaves calibration state and position unchanged; and no call that starts
\* on an uncalibrated telescope sends a move command.
C1_UncalibratedMoveRefused ==
    /\ (op.name = "move_to" /\ ~pre.calibrated) =>
          /\ exc = "Exception"
          /\ cmds = <<>>
          /\ calibrated = pre.calibrated
          /\ current_pos = pre.pos
    /\ ~pre.calibrated => NoMoveCmd(cmds)

\* A move_to refused after reset_position has made the telescope uncalibrated.
C1_Witness ==
    /\ op.name = "move_to" /\ exc = "Exception"
    /\ ~pre.calibrated
    /\ pre.op.name = "reset_position" /\ pre.exc = "none"

\* C3: calibrate makes the telescope Calibrated only when both axes
\* answered "0"; after any other response it is still Uncalibrated.
C3_CalibratedOnlyIfBothZero ==
    (op.name = "calibrate" /\ ~pre.calibrated /\ resps # <<R_ok, R_ok>>) =>
        ~calibrated

\* C6: on a calibrated telescope move_to with theta >= 0 and phi >= 0
\* returns without raising, whatever the device answers, and the stored
\* position is (theta mod 180, phi mod 360); move_to(200, 400) stores (20, 40).
C6_MoveNormalizes ==
    (op.name = "move_to" /\ pre.calibrated /\ op.theta >= 0 /\ op.phi >= 0) =>
        /\ exc = "none"
        /\ current_pos = <<op.theta % 180, op.phi % 360>>
        /\ (op.theta = 200 /\ op.phi = 400) => current_pos = <<20, 40>>

\* move_to(200, 400) whose two move commands were both answered with a
\* failure (a failure code and a timeout).
C6_Witness ==
    /\ op = Call("move_to", 200, 400) /\ pre.calibrated
    /\ Len(resps) = 2 /\ resps[1] = R_endswitch /\ resps[2] = R_empty
    /\ current_pos = <<20, 40>>

\* C7: an axis whose normalized target equals the stored value gets no
\* move command; a move_to that follows a move_to with the same normalized
\* target sends no command and leaves the position unchanged.
C7_MoveIdempotent ==
    /\ (op.name = "move_to" /\ exc = "none") =>
          /\ (op.phi % 360 = pre.pos[2]) => NoCmdFor(cmds, 0)
          /\ (op.theta % 180 = pre.pos[1]) => NoCmdFor(cmds, 1)
    /\ ( /\ op.name = "move_to" /\ exc = "none"
         /\ pre.op.name = "move_to" /\ pre.exc = "none"
         /\ Norm(op) = Norm(pre.op) ) =>
          /\ cmds = <<>>
          /\ current_pos = pre.pos

\* move_to(200, 400) followed by move_to(20, 40): the second sends nothing.
C7_Witness ==
    /\ pre.op = Call("move_to", 200, 400) /\ pre.exc = "none"
    /\ op = Call("move_to", 20, 40) /\ exc = "none"
    /\ cmds = <<>>

\* C8: calibrate on an uncalibrated telescope sends c0 first and, unless
\* axis 0 answered "-3", c1 second and nothing else; when both answer "0"
\* it returns with the telescope Calibrated at (90, 0).
C8_CalibrateSequence ==
    (op.name = "calibrate" /\ ~pre.calibrated) =>
        /\ Len(cmds) >= 1 /\ Len(cmds) <= 2 /\ Len(resps) = Len(cmds)
        /\ cmds[1] = CalCmd(0)
        /\ resps[1] = R_ok => (Len(cmds) = 2 /\ cmds[2] = CalCmd(1))
        /\ resps = <<R_ok, R_ok>> =>
              /\ exc = "none"
              /\ calibrated
              /\ current_pos = <<90, 0>>

\* A calibration from Uncalibrated in which both axes answered "0".
C8_Witness ==
    /\ op.name = "calibrate" /\ ~pre.calibrated
    /\ resps = <<R_ok, R_ok>> /\ cmds = <<CalCmd(0), CalCmd(1)>>
    /\ calibrated /\ current_pos = <<90, 0>>

\* C9: reset_position on a Calibrated telescope returns with the position
\* (60, 40) and the telescope Uncalibrated; a move_to on the uncalibrated
\* telescope raises and changes nothing; the telescope becomes Calibrated
\* again only by a calibrate that returns, and then the position is (90, 0).
C9_ResetThenRecalibrate ==
    /\ (op.name = "reset_position" /\ pre.calibrated) =>
          /\ exc = "none"
          /\ current_pos = <<60, 40>>
          /\ ~calibrated
    /\ (op.name = "move_to" /\ ~pre.calibrated) =>
          /\ exc = "Exception"
          /\ ~calibrated
          /\ current_pos = pre.pos
    /\ (~pre.calibrated /\ calibrated) =>
          /\ op.name = "calibrate" /\ exc = "none"
          /\ current_pos = <<90, 0>>

\* After a reset to (60, 40) a move_to was refused, and the calibrate that
\* followed brought the telescope back to Calibrated at (90, 0).
C9_Witness ==
    /\ pre.op.name = "move_to" /\ pre.exc = "Exception"
    /\ ~pre.calibrated /\ pre.pos = <<60, 40>>
    /\ op.name = "calibrate" /\ calibrated /\ current_pos = <<90, 0>>

\* C15: move_to called on a calibrated telescope with a negative theta or
\* a negative phi raises ValueError, sends no command, and leaves the
\* position and the calibration as they were.
C15_NegativeAngleRefused ==
    (/\ op.name = "move_to" /\ pre.calibrated
     /\ (op.theta < 0 \/ op.phi < 0)) =>
        /\ exc = "ValueError"
        /\ cmds = <<>>
        /\ current_pos = pre.pos
        /\ calibrated

\* move_to(20, -50) on a telescope calibrated and moved to (20, 40).
C15_Witness ==
    /\ op = Call("move_to", 20, -50) /\ pre.calibrated
    /\ pre.pos = <<20, 40>>
    /\ exc = "ValueError"

\* C17: calibrate called on a calibrated telescope returns without an
\* exception, sends no command, does not sleep, and leaves the telescope
\* calibrated at the position it had.
C17_CalibrateAgainNoOp ==
    [][(ncalls' = ncalls + 1 /\ op'.name = "calibrate" /\ calibrated) =>
          /\ exc' = "none"
          /\ cmds' = <<>>
          /\ UNCHANGED <<calibrated, current_pos, now, device_vars>>]_vars

\* calibrate on a telescope calibrated and moved to (20, 40): it stays there.
C17_Witness ==
    /\ op.name = "calibrate" /\ pre.calibrated
    /\ pre.pos = <<20, 40>> /\ pre.op.name = "move_to"
    /\ calibrated /\ current_pos = <<20, 40>>
    /\ cmds = <<>>

\* C18: calibrate on an uncalibrated telescope to whose "c0" or "c1" the
\* device answers "-3" raises ValueError at that axis: the telescope stays
\* uncalibrated at the position it had, the failed command is the last one
\* sent, and when axis 0 failed "c1" is not sent.
C18_EndSwitchAborts ==
    (/\ op.name = "calibrate" /\ ~pre.calibrated
     /\ \E i \in 1..Len(resps) : resps[i] = R_endswitch) =>
        /\ exc = "ValueError"
        /\ ~calibrated
        /\ current_pos = pre.pos
        /\ resps[Len(resps)] = R_endswitch
        /\ \A i \in 1..(Len(resps) - 1) : resps[i] # R_endswitch
        /\ Len(cmds) = Len(resps)
        /\ resps[1] = R_endswitch => cmds = <<CalCmd(0)>>
        /\ NoMoveCmd(cmds)

\* After reset_position left the telescope uncalibrated at (60, 40), axis 0
\* answers "-3": the position is still (60, 40) and "c1" was not sent.
C18_Witness ==
    /\ op.name = "calibrate" /\ pre.op.name = "reset_position"
    /\ ~pre.calibrated /\ pre.pos = <<ServiceTheta, ServicePhi>>
    /\ resps = <<R_endswitch>>
    /\ exc = "ValueError"
    /\ current_pos = <<ServiceTheta, ServicePhi>>

\* C22: after any calls of calibrate, move_to and reset_position, whatever
\* the device answered: the position is (None, None) exactly when no
\* calibrate has run to its last line so far; otherwise theta is in
\* [0, 180) and phi in [0, 360); a calibrated telescope has such a position.
C22_PositionDefinedOnceCalibrated ==
    /\ (current_pos = <<None, None>>) <=> ~ever_calibrated
    /\ ever_calibrated =>
          /\ current_pos[1] >= 0 /\ current_pos[1] < ThetaPeriod
          /\ current_pos[2] >= 0 /\ current_pos[2] < PhiPeriod
    /\ calibrated => ever_calibrated

\* Calibrated, moved to (200, 400), reset, then a calibrate that the end
\* switch of axis 1 aborts: uncalibrated, the position still (60, 40).
C22_Witness ==
    /\ ever_calibrated /\ ~calibrated
    /\ ncalls = 4
    /\ pre.op.name = "reset_position" /\ pre.exc = "none"
    /\ op.name = "calibrate" /\ exc = "ValueError"
    /\ resps = <<R_ok, R_endswitch>>
    /\ current_pos = <<ServiceTheta, ServicePhi>>

(***************************************************************************)
(* Properties of measure                                                   *)
(***************************************************************************)

\* C4: a depth query or buffer read that times out is "no new data this
\* tick": measure does not raise, and it leaves its loop only because the
\* time ceiling or the trigger ceiling is reached.
C4_TimeoutIsNoData ==
    /\ m_log.timed_out => (m_exc = "none" /\ m_pc # "raised")
    /\ m_pc \in {"drain", "done", "raised"} =>
          m_log.exit \in {"max_t_s", "max_trig"}

\* C10: with a device that answers depth 0 at every poll, measure returns
\* after a bounded number of polls (it always has a next step until it has
\* returned, and poll number p starts before (p - 1) * read_interval_s has
\* reached max_t_s), and the elapsed time it returns lies in
\* [max_t_s, max_t_s + read_interval_s).
C10_TimeCeiling ==
    m_log.all_zero =>
        /\ m_pc \in {"clear", "loop", "drain"} => ENABLED MeasureStep
        /\ m_pc \in {"loop", "drain", "done"} =>
              /\ now - t_start = m_log.polls * cfg.read_interval_s
              /\ m_log.polls >= 1 =>
                    (m_log.polls - 1) * cfg.read_interval_s < cfg.max_t_s
        /\ m_pc \in {"drain", "done"} => m_log.exit = "max_t_s"
        /\ m_pc = "done" =>
              /\ cfg.max_t_s <= time_elapsed
              /\ time_elapsed < cfg.max_t_s + cfg.read_interval_s

\* max_t_s = 3 polled every 2 s: two polls that reported 0, 4 s elapsed.
C10_Witness ==
    /\ m_pc = "done" /\ m_log.all_zero /\ m_log.polls = 2
    /\ cfg.max_t_s = 3 /\ cfg.read_interval_s = 2
    /\ time_elapsed = 4

\* C11: when every poll so far was answered a depth that reached
\* read_threshold, the loop goes on only while fewer than max_trig triggers
\* were drained (the count of the triggers kept so far); once it is left for
\* the trigger ceiling no poll follows, max_trig or more were drained at that
\* poll and at most max_trig - 1 before it, and measure returns max_trig
\* triggers or more.
C11_TriggerCeiling ==
    m_log.all_read =>
        /\ m_pc = "loop" =>
              /\ n_triggers < cfg.max_trig
              /\ n_triggers = Len(triggers)
        /\ (m_pc \in {"drain", "done"} /\ m_log.exit = "max_trig") =>
              /\ n_triggers >= cfg.max_trig
              /\ m_log.polls >= 1
              /\ n_triggers - Len(m_log.reads[m_log.polls]) < cfg.max_trig
              /\ ~ENABLED MeasurePoll
        /\ (m_pc = "done" /\ m_log.exit = "max_trig") =>
              Len(triggers) >= cfg.max_trig

\* max_trig = 3, read_threshold = 1: a first poll drained fewer than 3, the
\* second reached the ceiling well before max_t_s, 3 or more are returned.
C11_Witness ==
    /\ m_pc = "done" /\ m_log.all_read /\ m_log.exit = "max_trig"
    /\ cfg.max_trig = 3 /\ cfg.read_threshold = 1
    /\ m_log.polls = 2
    /\ now - t_start < cfg.max_t_s
    /\ Len(triggers) >= 3

\* The results of measure's buffer reads, one after the other.
RECURSIVE Flatten(_)
Flatten(seqs) ==
    IF seqs = <<>> THEN <<>> ELSE Head(seqs) \o Flatten(Tail(seqs))

\* The timestamps the device has given from the one numbered first on.
ArrivedSince(first) == [i \in 1..(dev_clock - first) |-> first + i - 1]

\* C20: the first command of measure is "x" (clear); the triggers it holds
\* are at every moment the results of its buffer reads, in order; when it
\* returns, the last command was "h" (read and clear), sent after the loop
\* whatever the loop did; and when every command was answered, it returns
\* every trigger the device recorded after the clear, once each, in the
\* order of arrival, none of those recorded before, and the buffer is empty.
C20_NoTriggerLostOrDuplicated ==
    /\ m_pc \in {"loop", "drain", "done", "raised"} =>
          /\ m_log.sent # <<>>
          /\ Head(m_log.sent) = "x"
          /\ \A i \in 2..Len(m_log.sent) : m_log.sent[i] # "x"
    /\ m_pc \in {"loop", "drain", "done"} => triggers = Flatten(m_log.reads)
    /\ m_pc = "drain" =>
          Len(m_log.sent) = 1 + m_log.polls + Len(m_log.reads)
    /\ m_pc = "done" =>
          /\ m_log.sent[Len(m_log.sent)] = "h"
          /\ Len(m_log.sent) = 2 + m_log.polls + (Len(m_log.reads) - 1)
    /\ (m_pc = "done" /\ ~m_log.timed_out) =>
          /\ triggers = ArrivedSince(m_log.first)
          /\ dev_buffer = <<>>

\* One old trigger in the buffer, read_threshold = 2, max_trig = 3: two
\* triggers are read at the first poll, a third stays below the threshold
\* at the second and is fetched by the last read; the old one is not returned.
C20_Witness ==
    /\ m_pc = "done" /\ ~m_log.timed_out
    /\ cfg.read_threshold = 2 /\ cfg.max_trig = 3
    /\ m_log.first = 2
    /\ m_log.sent = <<"x", "n", "h", "n", "h">>
    /\ m_log.reads = <<(<<2, 3>>), (<<4>>)>>
    /\ triggers = <<2, 3, 4>>

C13_SinkDetached ==
    /\ s_pc \in {"iter", "measuring", "finally"} =>
          handlers = s_log.handlers_before \cup {"logfile_handler"}
    /\ s_pc = "finally" =>
          /\ ENABLED ScanFinally
          /\ ~ENABLED (ScanSkip \/ ScanMove \/ ScanMeasure
                        \/ ScanMeasureRaised \/ ScanWrite \/ ScanCall)
    /\ s_pc = "returned" =>
          /\ handlers = s_log.handlers_before
          /\ "logfile_handler" \notin handlers

\* The file write of the second position raised after the first position
\* was written: scan has left by the exception, its handler is gone.
C13_Witness ==
    /\ s_pc = "returned" /\ s_log.step = "finally"
    /\ s_exc = "TypeError" /\ k = 2
    /\ fs_log
    /\ handlers = {"console_handler"}

C2_ResumeCompletes ==
    ( /\ s_pc = "returned" /\ s_runs >= 2
      /\ s_args.skip_existing /\ s_log.dir_before
      /\ DOMAIN s_log.before # {}
      /\ ValidPositions(s_args.positions) /\ calibrated ) =>
        /\ s_exc = "none"
        /\ s_log.device \cap DOMAIN s_log.before = {}
        /\ \A f \in DOMAIN s_log.before :
              Exists(f) /\ fs_files[f] = s_log.before[f]

\* C5: when scan has moved, measured and written the file of a position,
\* no error was raised and the file's lines are the JSON header followed by
\* one line per trigger that measure returned, in order, the header's
\* n_triggers being the number of those lines.
C5_ResultFile ==
    s_log.step = "write" =>
        /\ s_exc = "none"
        /\ Exists(s_log.path)
        /\ Len(fs_files[s_log.path]) = 1 + Len(triggers)
        /\ fs_files[s_log.path][1][1].n_triggers = Len(triggers)
        /\ \A i \in 1..Len(triggers) :
              fs_files[s_log.path][i + 1] = Str(triggers[i])

\* A measurement that returned no trigger: its file is the header alone.
C5_EmptyWitness ==
    /\ s_log.step = "write" /\ s_exc = "none" /\ triggers = <<>>
    /\ Len(fs_files[s_log.path]) = 1
    /\ fs_files[s_log.path][1][1].n_triggers = 0

\* C19 as the specification states it: within one invocation of scan, with skip_existing set
\* or not, no result file is opened for writing a second time.
C19_NeverRewritten == ~s_log.rewritten

\* C19: within one invocation of scan with skip_existing set, whatever the
\* positions (a position may be listed twice), every result file is opened
\* for writing at most once, and only when it did not exist: a position
\* whose file this invocation has written is skipped.
C19_WrittenOnceWhenSkipping ==
    s_args.skip_existing =>
        /\ ~s_log.rewritten
        /\ s_log.writes \cap DOMAIN s_log.before = {}
        /\ (s_pc = "iter" /\ k <= Len(s_args.positions)
             /\ CurPath \in s_log.writes) =>
                (ENABLED ScanSkip /\ ~ENABLED ScanMove)

\* The position (0, 10) listed twice: its file was written at the first
\* and the second was skipped.
C19_Witness ==
    /\ s_args.skip_existing
    /\ s_args.positions = <<(<<0, 10>>), (<<0, 10>>)>>
    /\ s_log.step = "skip" /\ k = 3
    /\ s_log.writes = {OutPath(0, 10)}
    /\ DOMAIN fs_files = {OutPath(0, 10)}

(***************************************************************************)
(* Properties of raster_scan                                               *)
(***************************************************************************)

\* The pairs of raster_scan's lists, as file names.
RasterPaths ==
    {OutPath(s_args.thetas[i], s_args.phis[j]) :
        i \in 1..Len(s_args.thetas), j \in 1..Len(s_args.phis)}

\* C14: raster_scan on a calibrated telescope and a new save_dir, every
\* command answered, sweeps the pairs theta by theta (each theta with every
\* phi in turn) and returns with exactly one result file for each pair.
C14_RasterProduct ==
    (/\ s_pc = "returned" /\ s_log.step = "finally"
     /\ calibrated /\ ~s_log.dir_before
     /\ ~m_log.timed_out /\ \A i \in DOMAIN resps : resps[i] = R_ok) =>
        /\ Len(s_args.positions) = Len(s_args.thetas) * Len(s_args.phis)
        /\ \A i \in 1..Len(s_args.thetas), j \in 1..Len(s_args.phis) :
              s_args.positions[(i - 1) * Len(s_args.phis) + j]
                  = <<s_args.thetas[i], s_args.phis[j]>>
        /\ s_exc = "none"
        /\ DOMAIN fs_files = RasterPaths

\* thetas = [0, 90], phis = [0, 180] with no trigger at any of the four
\* positions: four files.
C14_QuietWitness ==
    /\ s_pc = "returned" /\ s_exc = "none"
    /\ s_args.thetas = <<0, 90>> /\ s_args.phis = <<0, 180>>
    /\ s_args.positions = <<(<<0, 0>>), (<<0, 180>>), (<<90, 0>>), (<<90, 180>>)>>
    /\ DOMAIN fs_files = RasterPaths
    /\ Cardinality(DOMAIN fs_files) = 4

(***************************************************************************)
(* Properties of send_cmd                                                  *)
(***************************************************************************)

\* C16: a send_cmd whose socket timed out raises nothing and returns the
\* empty text, whatever it had received before the timeout.
C16_TimeoutReturnsEmpty ==
    (send_pc \in {"returned", "raised"} /\ send_log.timed_out) =>
        /\ send_pc = "returned"
        /\ send_exc = "none"
        /\ send_ret = <<>>

\* A timeout before anything was received: the empty text is returned.
C16_SilentWitness ==
    /\ send_pc = "returned" /\ send_log.timed_out
    /\ send_log.received = <<>>
    /\ send_ret = <<>>

====
